---- MODULE Spec2Model ----
(***************************************************************************)
(* SyncLab dubbing engine (src/index.js): the in-memory job store, the     *)
(* pipeline orchestrator runPipeline with its seven stage adapters, the    *)
(* deferred cleanup and the DELETE route.                                  *)
(*                                                                         *)
(* Granularity.  Node runs one callback at a time and drains the promise   *)
(* continuations that callback made runnable before it takes the next      *)
(* event.  An action of this model is one such task: an event handler (a   *)
(* child process closing or failing to launch, a fetch settling, a timer,  *)
(* an HTTP request) together with the part of runPipeline that runs until  *)
(* its next pending await.  The store is written several times inside one  *)
(* task; log[id] keeps the record the store held for id before the latest  *)
(* task that ran for id, followed by the record after each updateJob call  *)
(* of that task, so that every write is visible to the properties.         *)
(*                                                                         *)
(* The operators named after the stage functions take the whole state as   *)
(* a record s and return the set of states in which the pipeline can be    *)
(* suspended next.  They are defined last stage first, as each one calls   *)
(* the continuation of the await it resolves.  Where one stage hands the   *)
(* state to the next, UNION { F(t, id) : t \in {s} } is F(s, id) with s     *)
(* evaluated once.                                                         *)
(*                                                                         *)
(* A provider call (await fetch, then await res.json() or arrayBuffer()) is  *)
(* one event: nothing is written between its two awaits.                   *)
(*                                                                         *)
(* Not modelled: createdAt/updatedAt, meta other than lang_to and          *)
(* voice_mode, the extracted-frames directory, the bytes of media files,   *)
(* the routes that only read, the responses of POST /api/dub.              *)
(***************************************************************************)
EXTENDS Integers, Sequences, FiniteSets, TLC

VARIABLES
  jobs,    \* the Map `jobs` (line 54): a function from the stored ids to records
  pc,      \* per job id: the await at which its runPipeline invocation is suspended
  loc,     \* per job id: the locals of runPipeline
  procs,   \* per job id: child processes whose events are still to come
  files,   \* per job id: the artifacts on disk, path -> what produced them
  calls,   \* per job id: external capabilities started in the current stage, in order
  env,     \* what the deployment provides: the env variables set, the model file
  timer,   \* per job id: a cleanupTemp timer (setTimeout, line 461) is pending
  log,     \* per job id: the records of the latest task (see above)
  ret,     \* per job id: what translateText returned in the latest task, if it did
  res      \* what the DELETE route answered in the latest task, if that served one

vars == <<jobs, pc, loc, procs, files, calls, env, timer, log, ret, res>>

\* Number of submissions the model follows (ids 1..MaxJobs stand for the uuids).
MaxJobs == 2

JobIds == 1..MaxJobs

\* process.env.X is set; "wav2lip_gan.pth": fs.existsSync(modelPath) (line 332).
\* Nothing in the program changes either.
EnvNames == {"LIBRETRANSLATE_URL", "DEEPL_API_KEY", "XTTS_SERVER_URL",
             "ELEVENLABS_API_KEY", "wav2lip_gan.pth"}

\* voice_mode of a submission (req.body.voice_mode, default 'clone')
VoiceModes == {"clone", "preset"}

\* lang_to of the submission with this id (req.body.lang_to, default 'es').
LangTo(id) == IF id = 1 THEN "es" ELSE "fr"

-----------------------------------------------------------------------------
(* Paths (path.join(__dirname, dir, jobId + suffix)); the job id is the     *)
(* index of `files`.                                                        *)
AudioPath    == "temp/_audio.wav"
DubbedWav    == "temp/_dubbed.wav"
DubbedMp3    == "temp/_dubbed.mp3"
LipsyncPath  == "temp/_lipsync.mp4"
FinalPath    == "outputs/_dubbed_final.mp4"
SrtPath      == "outputs/_subtitles.srt"

NoFiles == [p \in {} |-> ""]
NoOutputs == [k \in {} |-> ""]

\* the awaits of runPipeline (by the external call awaited), before its call, after its return
Labels == {"none", "ea_wait", "ef_wait", "tr_wait", "tl_libre", "tl_deepl",
           "sy_xtts", "sy_eleven", "ls_wait", "fr_wait", "end"}

-----------------------------------------------------------------------------
(* The job store                                                            *)

NewJob == [status |-> "queued", stage |-> "null", progress |-> 0,
           message |-> "", outputs |-> NoOutputs]

createJob(store, id) == (id :> NewJob) @@ store

\* A faulty update that stores a record for an id the store does not hold (C19 must
\* see it).
updateJobUpsert(store, id, updates) ==
  IF id \notin DOMAIN store THEN (id :> (updates @@ NewJob)) @@ store
  ELSE [store EXCEPT ![id] = updates @@ @]

\* A faulty update that writes the fields into every stored record (C13 must see it).
updateJobAll(store, id, updates) == [j \in DOMAIN store |-> updates @@ store[j]]

\* Object.assign(job, updates): the fields of `updates` replace the job's; unknown id: no-op
updateJob(store, id, updates) ==
  IF id \notin DOMAIN store THEN store
  ELSE [store EXCEPT ![id] = updates @@ @]

\* A faulty removal that drops every record up to id (C12 must see it).
deleteJobUpTo(store, id) == [j \in { k \in DOMAIN store : k > id } |-> store[j]]

\* jobs.delete(id)
deleteJob(store, id) == [j \in (DOMAIN store) \ {id} |-> store[j]]

\* the suffixes cleanupTemp unlinks (line 490)
TempPaths == {AudioPath, DubbedWav, LipsyncPath}

\* cleanupTemp unlinks the temp paths that exist; nothing else is touched
cleanupTemp(fs) == [p \in (DOMAIN fs) \ TempPaths |-> fs[p]]

-----------------------------------------------------------------------------
(* Transcripts.  Times are in milliseconds (the source has seconds as floats). *)
getMockTranscript ==
  [text |-> "Hello, welcome to this demonstration of the SyncLab dubbing engine.",
   segments |-> << [id |-> 0, start |-> 0, end |-> 2500,
                    text |-> "Hello, welcome to this demonstration"],
                   [id |-> 1, start |-> 2500, end |-> 5000,
                    text |-> "of the SyncLab dubbing engine."] >>,
   language |-> "en"]

\* what JSON.parse of Whisper's output file yields when it succeeds (one representative)
WhisperTranscript ==
  [text |-> "spoken words",
   segments |-> << [id |-> 0, start |-> 0, end |-> 4000, text |-> "spoken words"] >>,
   language |-> "en"]

NoTranscript == [text |-> "", segments |-> <<>>, language |-> ""]

\* { ...transcript, translatedText: t }
WithTranslation(transcript, t) ==
  [text |-> transcript.text, segments |-> transcript.segments,
   language |-> transcript.language, translatedText |-> t]

\* data.translatedText of a response that carries none
Undefined == <<"undefined">>

\* `[Translated to ${toLang}]: ${transcript.text}`
Placeholder(toLang, text) == <<"[Translated to ", toLang, "]: ", text>>

\* what a provider's successful response carries for this text
ProviderText(provider, text) == <<provider, text>>

\* the locals of one runPipeline invocation that a later line reads (audioPath and
\* lipsyncPath are the fixed paths, framesDir is never read).  They are gone when
\* runPipeline returns; its parameter voiceMode is gone when synthesizeVoice, the one
\* function it is passed to, has returned.
NoLoc == [transcript |-> NoTranscript,
          translated |-> WithTranslation(NoTranscript, Undefined),
          dubbedAudio |-> "none", finalPath |-> "none", voiceMode |-> "none"]

\* a child process whose events are pending: ph = "run" (no event yet) or
\* "erred" ('error' was emitted, its 'close' is still to come)
Proc(k, n, ph) == [k |-> k, n |-> n, ph |-> ph]

\* the answers of DELETE /api/dub/:jobId, lines 597 and 600
NoRes == [status |-> 0, body |-> "none"]

NotFound == [status |-> 404, body |-> "Job not found"]

Deleted == [status |-> 200, body |-> "Job deleted"]

-----------------------------------------------------------------------------
(* The state as a record, and the steps of a task on it                     *)

Now == [jobs |-> jobs, pc |-> pc, loc |-> loc, procs |-> procs, files |-> files,
        calls |-> calls, env |-> env, timer |-> timer, log |-> log, ret |-> ret,
        res |-> res]

Becomes(s) ==
  /\ jobs' = s.jobs   /\ pc' = s.pc       /\ loc' = s.loc
  /\ procs' = s.procs /\ files' = s.files /\ calls' = s.calls
  /\ env' = s.env     /\ timer' = s.timer /\ log' = s.log
  /\ ret' = s.ret     /\ res' = s.res

\* the state at the start of a task that runs for id
Begin(id) == [Now EXCEPT !.log[id] = IF id \in DOMAIN jobs THEN <<jobs[id]>> ELSE <<>>,
                         !.ret[id] = <<>>, !.res = NoRes]

\* an updateJob call inside a task
Upd(s, id, updates) ==
  LET store == updateJob(s.jobs, id, updates)
  IN  [s EXCEPT !.jobs = store,
                !.log[id] = IF id \in DOMAIN store THEN Append(@, store[id]) ELSE @]

\* a stage is entered: what it starts is recorded from here on
Stage(s, id) == [s EXCEPT !.calls[id] = <<>>]

\* spawn(...): the process is running, the capability is recorded
Spawn(s, id, k, n) ==
  [s EXCEPT !.procs[id] = @ \cup {Proc(k, n, "run")}, !.calls[id] = Append(@, k)]

\* fetch(...) of a provider: the capability is recorded
Fetch(s, id, provider) == [s EXCEPT !.calls[id] = Append(@, provider)]

\* the process's event has been delivered
Reap(s, id, p) == [s EXCEPT !.procs[id] = @ \ {p}]

\* runPipeline is suspended at (or has reached) label l
Await(s, id, l) == [s EXCEPT !.pc[id] = l]

\* runPipeline returns
Return(s, id) == [s EXCEPT !.pc[id] = "end", !.loc[id] = NoLoc]

WriteFile(s, id, path, content) == [s EXCEPT !.files[id] = (path :> content) @@ @]

-----------------------------------------------------------------------------
\* A faulty catch block that swallows the error without recording it (C4 must see it).
catchSilent(s, id, message) == {Return(s, id)}

(* runPipeline's catch block, line 465                                      *)
catch(s, id, message) ==
  {Return(Upd(s, id, [status |-> "error", message |-> message]), id)}

(* lines 453-461: the last update, then the cleanup timer is set            *)
finish(s, id) ==
  LET t == Upd(s, id, [status |-> "done", progress |-> 100,
                       message |-> "Dubbing complete!",
                       outputs |-> [video |-> s.loc[id].finalPath, srt |-> SrtPath,
                                    audio |-> s.loc[id].dubbedAudio]])
  IN  {Return([t EXCEPT !.timer[id] = TRUE], id)}

(* generateSrt, lines 469-479: writeFileSync writes the file or throws      *)
generateSrt(s, id) ==
  finish(WriteFile(s, id, SrtPath, "srt"), id)
    \cup catch(s, id, "ENOSPC: no space left on device, write")

(* Step 7: finalRender up to its spawn, lines 395-399                       *)
finalRender(s, id) ==
  LET t == Upd(Stage(s, id), id, [stage |-> "pill-render", progress |-> 94,
                                  message |-> "Encoding final output..."])
  IN  {Await(Spawn(t, id, "ffmpeg_render", 1), id, "fr_wait")}

\* what the encoder makes of an input file
Encode(content) == IF content = "wav2lip" THEN "encode(wav2lip)" ELSE "encode(merge)"

(* mergeAudioOnly up to its spawn, lines 371-374                            *)
\* the index a merge process started now gets (two can be in flight at once)
NextMerge(s, id) == IF \E q \in s.procs[id] : q.k = "merge" /\ q.n = 1 THEN 2 ELSE 1

mergeAudioOnly(s, id) ==
  LET t == Upd(s, id, [stage |-> "pill-lipsync", progress |-> 86,
                       message |-> "Merging dubbed audio with video..."])
  IN  Spawn(t, id, "merge", NextMerge(s, id))

\* A faulty runLipSync that launches the inference without looking for the model file
\* (C8 must see it).
runLipSyncUnchecked(s, id) ==
  LET t == Upd(Stage(s, id), id, [stage |-> "pill-lipsync", progress |-> 82,
                          message |-> "Applying Wav2Lip lip synchronization..."])
  IN  {Await(Spawn(t, id, "wav2lip", 1), id, "ls_wait")}

(* Step 6: runLipSync up to its await, lines 326-349                        *)
runLipSync(s, id) ==
  LET t == Upd(Stage(s, id), id, [stage |-> "pill-lipsync", progress |-> 82,
                          message |-> "Applying Wav2Lip lip synchronization..."])
  IN  IF "wav2lip_gan.pth" \notin s.env
      THEN \* lines 333-334
           {Await(mergeAudioOnly(Upd(t, id, [progress |-> 88]), id), id, "ls_wait")}
      ELSE \* line 347
           {Await(Spawn(t, id, "wav2lip", 1), id, "ls_wait")}

(* Step 5: synthesizeVoice, lines 263-319                                   *)
\* its return: line 442 assigns dubbedAudio, line 445 calls runLipSync
synthReturn(s, id, path) ==
  UNION { runLipSync(t, id) :
          t \in {[Upd(s, id, [progress |-> 75]) EXCEPT !.loc[id].dubbedAudio = path,
                                                        !.loc[id].voiceMode = "none"]} }

\* lines 316-318: the reference audio is returned
synthFallback(s, id) == synthReturn(s, id, AudioPath)

\* line 289
elevenlabs(s, id) ==
  IF "ELEVENLABS_API_KEY" \in s.env
  THEN {Await(Fetch(s, id, "elevenlabs"), id, "sy_eleven")}
  ELSE synthFallback(s, id)

\* A faulty provider choice that asks the cloning server whatever the voice mode is
\* (C11 must see it).
synthesizeVoiceAnyMode(s, id) ==
  LET t == Upd(Stage(s, id), id, [stage |-> "pill-synth", progress |-> 65,
                                  message |-> "Synthesizing dubbed voice..."])
  IN  IF "XTTS_SERVER_URL" \in s.env
      THEN {Await(Fetch(t, id, "xtts"), id, "sy_xtts")}
      ELSE elevenlabs(t, id)

\* lines 264-267
synthesizeVoice(s, id) ==
  LET t == Upd(Stage(s, id), id, [stage |-> "pill-synth", progress |-> 65,
                                  message |-> "Synthesizing dubbed voice..."])
  IN  IF s.loc[id].voiceMode = "clone" /\ "XTTS_SERVER_URL" \in s.env
      THEN {Await(Fetch(t, id, "xtts"), id, "sy_xtts")}
      ELSE elevenlabs(t, id)

(* Step 4: translateText, lines 207-257                                     *)
\* its return: line 439 assigns translated, line 442 calls synthesizeVoice
translateReturn(s, id, t) ==
  LET translated == WithTranslation(s.loc[id].transcript, t)
  IN  UNION { synthesizeVoice(u, id) :
              u \in {[Upd(s, id, [progress |-> 58]) EXCEPT
                        !.loc[id].translated = translated,
                        !.ret[id] = <<[value |-> translated, calls |-> s.calls[id]]>>]} }

\* lines 252-256
translateFallback(s, id) ==
  translateReturn(s, id, Placeholder(LangTo(id), s.loc[id].transcript.text))

\* line 233
deepl(s, id) ==
  IF "DEEPL_API_KEY" \in s.env
  THEN {Await(Fetch(s, id, "deepl"), id, "tl_deepl")}
  ELSE translateFallback(s, id)

\* lines 208-211
translateText(s, id) ==
  LET t == Upd(Stage(s, id), id, [stage |-> "pill-translate", progress |-> 48,
                                  message |-> "Translating..."])
  IN  IF "LIBRETRANSLATE_URL" \in s.env
      THEN {Await(Fetch(t, id, "libretranslate"), id, "tl_libre")}
      ELSE deepl(t, id)

(* Step 3: transcribeAudio up to its spawn, lines 148-163                   *)
transcribeAudio(s, id) ==
  LET t == Upd(Stage(s, id), id, [stage |-> "pill-transcribe", progress |-> 28,
                                  message |-> "Running speech recognition..."])
  IN  {Await(Spawn(t, id, "whisper", 1), id, "tr_wait")}

\* its return: line 436 assigns transcript, line 439 calls translateText
transcribeReturn(s, id, transcript) ==
  UNION { translateText(t, id) : t \in {[s EXCEPT !.loc[id].transcript = transcript]} }

(* Step 2: extractFrames up to its spawn, lines 121-127, under the          *)
(* .catch(() => null) of line 433                                           *)
extractFrames(s, id) ==
  LET t == Upd(Stage(s, id), id, [stage |-> "pill-extract", progress |-> 18,
                                  message |-> "Extracting video frames..."])
  IN  \* mkdirSync throws at line 122: null, and line 436 goes on
      UNION { transcribeAudio(u, id) : u \in {Stage(s, id)} }
        \cup {Await(Spawn(t, id, "ffmpeg_frames", 1), id, "ef_wait")}

(* Step 1: extractAudio up to its spawn, lines 93-97                        *)
extractAudio(s, id) ==
  LET t == Upd(Stage(s, id), id, [stage |-> "pill-extract", progress |-> 8,
                                  message |-> "Extracting audio from video..."])
  IN  {Await(Spawn(t, id, "ffmpeg_audio", 1), id, "ea_wait")}

(* runPipeline up to its first await, lines 428-432                         *)
runPipeline(s, id) == extractAudio(Upd(s, id, [status |-> "running"]), id)

-----------------------------------------------------------------------------
Init ==
  /\ jobs = [j \in {} |-> NewJob]
  /\ pc = [id \in JobIds |-> "none"]
  /\ loc = [id \in JobIds |-> NoLoc]
  /\ procs = [id \in JobIds |-> {}]
  /\ files = [id \in JobIds |-> NoFiles]
  /\ calls = [id \in JobIds |-> <<>>]
  /\ env \in SUBSET EnvNames
  /\ timer = [id \in JobIds |-> FALSE]
  /\ log = [id \in JobIds |-> <<>>]
  /\ ret = [id \in JobIds |-> <<>>]
  /\ res = NoRes

Running(id, k, n) == Proc(k, n, "run") \in procs[id]

\* POST /api/dub, lines 508-531: createJob, then runPipeline runs to its first await
Submit(id) ==
  /\ pc[id] = "none"
  /\ \A j \in JobIds : j < id => pc[j] # "none"
  /\ \E voiceMode \in VoiceModes :
       \E t \in runPipeline([Now EXCEPT !.jobs = createJob(jobs, id),
                                        !.log[id] = <<NewJob>>, !.res = NoRes,
                                        !.loc[id].voiceMode = voiceMode], id) : Becomes(t)

-----------------------------------------------------------------------------
(* Event handlers.  A handler that settles the promise runPipeline awaits   *)
(* continues runPipeline in the same task.  Where a process emits 'close'   *)
(* after 'error' and the close handler only settles the settled promise     *)
(* again (extractAudio, extractFrames, transcribeAudio, finalRender), the   *)
(* second event changes nothing and is left out.                            *)

\* extractAudio: close with code 0, lines 105-107; line 433 calls extractFrames
AudioCloseOk(id) ==
  /\ Running(id, "ffmpeg_audio", 1)
  /\ LET s == Reap(Begin(id), id, Proc("ffmpeg_audio", 1, "run"))
         t == WriteFile(Upd(s, id, [progress |-> 15]), id, AudioPath, "pcm")
     IN  \E u \in extractFrames(t, id) : Becomes(u)

\* A faulty handling of the extraction failure that goes on as line 433 does for
\* the frames (C5 must see it).
AudioFailIgnored(id) ==
  /\ Running(id, "ffmpeg_audio", 1)
  /\ LET s == Reap(Begin(id), id, Proc("ffmpeg_audio", 1, "run"))
     IN  \E u \in extractFrames(s, id) : Becomes(u)

\* extractAudio: close with a non-zero code (line 109) or 'error' (line 113)
AudioFail(id) ==
  /\ Running(id, "ffmpeg_audio", 1)
  /\ LET s == Reap(Begin(id), id, Proc("ffmpeg_audio", 1, "run"))
     IN  \E m \in {"ffmpeg audio extraction failed (code 1)",
                   "ffmpeg not found - please install ffmpeg"} :  \* (an em dash in the source)
           \E u \in catch(s, id, m) : Becomes(u)

\* A faulty call of extractFrames without the .catch of line 433: its failure ends the
\* pipeline (C18 must see it).
FramesDoneRejects(id) ==
  /\ Running(id, "ffmpeg_frames", 1)
  /\ LET s == Reap(Begin(id), id, Proc("ffmpeg_frames", 1, "run"))
     IN  \E u \in transcribeAudio(s, id) \cup catch(s, id, "Frame extraction failed") :
           Becomes(u)

\* extractFrames: close 0 resolves framesDir (136); close non-zero or 'error' (136, 139)
\* rejects, which line 433 turns into null; line 436 calls transcribeAudio either way
FramesDone(id) ==
  /\ Running(id, "ffmpeg_frames", 1)
  /\ LET s == Reap(Begin(id), id, Proc("ffmpeg_frames", 1, "run"))
     IN  \E u \in transcribeAudio(s, id) : Becomes(u)

\* transcribeAudio: close 0 and the JSON file parses, lines 172-175
WhisperOk(id) ==
  /\ Running(id, "whisper", 1)
  /\ AudioPath \in DOMAIN files[id]
  /\ LET s == Reap(Begin(id), id, Proc("whisper", 1, "run"))
     IN  \E u \in transcribeReturn(Upd(s, id, [progress |-> 40]), id, WhisperTranscript) :
           Becomes(u)

\* A faulty transcription failure that rejects as the audio extraction's does (C17
\* must see it).
WhisperRejects(id) ==
  /\ Running(id, "whisper", 1)
  /\ LET s == Reap(Begin(id), id, Proc("whisper", 1, "run"))
     IN  \E u \in catch(s, id, "Whisper failed") : Becomes(u)

\* transcribeAudio: close 0 with an unreadable file (178), close non-zero (181), 'error' (187)
WhisperMock(id) ==
  /\ Running(id, "whisper", 1)
  /\ LET s == Reap(Begin(id), id, Proc("whisper", 1, "run"))
     IN  \E u \in transcribeReturn(s, id, getMockTranscript) : Becomes(u)

\* translateText: the LibreTranslate reply parsed as JSON, lines 224-226.  res.ok is
\* not looked at, so a reply that carries a translation and an error reply in JSON
\* (no translatedText field) take the same path.
LibreReturn(id) ==
  /\ pc[id] = "tl_libre"
  /\ \E t \in {ProviderText("libretranslate", loc[id].transcript.text), Undefined} :
       \E u \in translateReturn(Begin(id), id, t) : Becomes(u)

\* translateText: fetch rejects or res.json() throws: caught at 227, then line 233
LibreThrow(id) ==
  /\ pc[id] = "tl_libre"
  /\ \E u \in deepl(Begin(id), id) : Becomes(u)

\* translateText: data.translations[0].text is read, lines 243-245
DeeplReturn(id) ==
  /\ pc[id] = "tl_deepl"
  /\ \E u \in translateReturn(Begin(id), id,
                              ProviderText("deepl", loc[id].transcript.text)) : Becomes(u)

\* translateText: fetch rejects, res.json() throws, or the reply has no translations
\* array (data.translations[0] throws a TypeError): caught at 246
DeeplThrow(id) ==
  /\ pc[id] = "tl_deepl"
  /\ \E u \in translateFallback(Begin(id), id) : Becomes(u)

\* synthesizeVoice: res.ok, lines 280-283: the XTTS server wrote file_path
XttsOk(id) ==
  /\ pc[id] = "sy_xtts"
  /\ \E u \in synthReturn(WriteFile(Begin(id), id, DubbedWav, "xtts"), id, DubbedWav) :
       Becomes(u)

\* synthesizeVoice: fetch rejects (284) or res.ok is false: line 289 is next
XttsFail(id) ==
  /\ pc[id] = "sy_xtts"
  /\ \E u \in elevenlabs(Begin(id), id) : Becomes(u)

\* synthesizeVoice: res.ok, lines 304-308
ElevenOk(id) ==
  /\ pc[id] = "sy_eleven"
  /\ \E u \in synthReturn(WriteFile(Begin(id), id, DubbedMp3, "elevenlabs"), id, DubbedMp3) :
       Becomes(u)

\* synthesizeVoice: fetch rejects, res.ok is false, or arrayBuffer/writeFileSync throws (310)
ElevenFail(id) ==
  /\ pc[id] = "sy_eleven"
  /\ \E u \in synthFallback(Begin(id), id) : Becomes(u)

\* runLipSync: close with code 0, lines 352-354; line 448 calls finalRender
Wav2LipOk(id) ==
  /\ Running(id, "wav2lip", 1)
  /\ loc[id].dubbedAudio \in DOMAIN files[id]
  /\ LET s == Reap(Begin(id), id, Proc("wav2lip", 1, "run"))
         t == WriteFile(Upd(s, id, [progress |-> 90]), id, LipsyncPath, "wav2lip")
     IN  \E u \in finalRender(t, id) : Becomes(u)

\* runLipSync: close with a non-zero code and no 'error' before it, line 357
Wav2LipFail(id) ==
  /\ Running(id, "wav2lip", 1)
  /\ Becomes(mergeAudioOnly(Reap(Begin(id), id, Proc("wav2lip", 1, "run")), id))

\* runLipSync: 'error' (the process could not be launched), line 362; Node emits the
\* process's 'close' after it
Wav2LipError(id) ==
  /\ Running(id, "wav2lip", 1)
  /\ LET s == Reap(Begin(id), id, Proc("wav2lip", 1, "run"))
     IN  Becomes(mergeAudioOnly([s EXCEPT !.procs[id] = @ \cup {Proc("wav2lip", 1, "erred")}], id))

\* runLipSync: the 'close' (non-zero code) that follows the 'error': line 357 runs as well
Wav2LipLateClose(id) ==
  /\ Proc("wav2lip", 1, "erred") \in procs[id]
  /\ Becomes(mergeAudioOnly(Reap(Begin(id), id, Proc("wav2lip", 1, "erred")), id))

\* a promise settles once: a merge's result reaches runPipeline only while the await
\* of line 445 is pending
Awaited(s, id) == s.pc[id] = "ls_wait"

\* mergeAudioOnly: close with code 0, lines 383-384
MergeOk(id, n) ==
  /\ Running(id, "merge", n)
  /\ loc[id].dubbedAudio \in DOMAIN files[id] \/ pc[id] = "end"
  /\ LET s == Reap(Begin(id), id, Proc("merge", n, "run"))
         t == WriteFile(Upd(s, id, [progress |-> 90]), id, LipsyncPath, "merge")
     IN  \E u \in (IF Awaited(t, id) THEN finalRender(t, id) ELSE {t}) : Becomes(u)

\* mergeAudioOnly: close with a non-zero code, lines 383-384, as the first event or
\* after the 'error' (ph = "erred": the promise is rejected already)
MergeCloseFail(id, n) ==
  \E ph \in {"run", "erred"} :
    /\ Proc("merge", n, ph) \in procs[id]
    /\ LET s == Reap(Begin(id), id, Proc("merge", n, ph))
           t == Upd(s, id, [progress |-> 90])
       IN  \E u \in (IF Awaited(t, id) /\ ph = "run"
                     THEN catch(t, id, "Audio merge failed") ELSE {t}) : Becomes(u)

\* mergeAudioOnly: 'error', line 387; Node emits the process's 'close' after it
MergeError(id, n) ==
  /\ Running(id, "merge", n)
  /\ LET s == Reap(Begin(id), id, Proc("merge", n, "run"))
         t == [s EXCEPT !.procs[id] = @ \cup {Proc("merge", n, "erred")}]
     IN  \E u \in (IF Awaited(t, id) THEN catch(t, id, "ffmpeg not found") ELSE {t}) :
           Becomes(u)

\* finalRender: close with code 0, lines 409-410; line 451 calls generateSrt
RenderOk(id) ==
  /\ Running(id, "ffmpeg_render", 1)
  /\ LipsyncPath \in DOMAIN files[id]
  /\ LET s == Reap(Begin(id), id, Proc("ffmpeg_render", 1, "run"))
         t == Upd(s, id, [progress |-> 100, status |-> "done", stage |-> "complete",
                          message |-> "Dubbing complete!",
                          outputs |-> [video |-> FinalPath]])
         w == WriteFile(t, id, FinalPath, Encode(files[id][LipsyncPath]))
     IN  \E u \in generateSrt([w EXCEPT !.loc[id].finalPath = FinalPath], id) : Becomes(u)

\* finalRender: close with a non-zero code, line 412
RenderFail(id) ==
  /\ Running(id, "ffmpeg_render", 1)
  /\ LET s == Reap(Begin(id), id, Proc("ffmpeg_render", 1, "run"))
     IN  \E u \in catch(s, id, "Final render failed") : Becomes(u)

\* A faulty 'error' handler that rejects as the other stages do (C9 must see it).
RenderErrorRejects(id) ==
  /\ Running(id, "ffmpeg_render", 1)
  /\ LET s == Reap(Begin(id), id, Proc("ffmpeg_render", 1, "run"))
     IN  \E u \in catch(s, id, "ffmpeg not found") : Becomes(u)

\* finalRender: 'error', lines 418-419
RenderError(id) ==
  /\ Running(id, "ffmpeg_render", 1)
  /\ LET s == Reap(Begin(id), id, Proc("ffmpeg_render", 1, "run"))
         t == Upd(s, id, [progress |-> 100, status |-> "done", stage |-> "complete",
                          message |-> "Demo complete (ffmpeg not installed)",
                          outputs |-> [video |-> LipsyncPath]])
     IN  \E u \in generateSrt([t EXCEPT !.loc[id].finalPath = LipsyncPath], id) : Becomes(u)

\* the timer of line 461 fires: cleanupTemp(jobId)
CleanupTimer(id) ==
  /\ timer[id]
  /\ Becomes([Begin(id) EXCEPT !.files[id] = cleanupTemp(@), !.timer[id] = FALSE])

\* DELETE /api/dub/:jobId for an id the store does not hold (never issued, or
\* deleted before), lines 596-597
DeleteUnknown(id) ==
  /\ id \notin DOMAIN jobs
  /\ Becomes([Begin(id) EXCEPT !.res = NotFound])

\* DELETE /api/dub/:jobId for a stored id, lines 598-600
Delete(id) ==
  /\ id \in DOMAIN jobs
  /\ Becomes([Now EXCEPT !.files[id] = cleanupTemp(@), !.jobs = deleteJob(jobs, id),
                         !.log[id] = <<>>, !.ret[id] = <<>>, !.res = Deleted])

\* the events of the outside world that reach the program on behalf of job id
Event(id) ==
    \/ AudioCloseOk(id)
    \/ AudioFail(id)
    \/ FramesDone(id)
    \/ WhisperOk(id)
    \/ WhisperMock(id)
    \/ LibreReturn(id)
    \/ LibreThrow(id)
    \/ DeeplReturn(id)
    \/ DeeplThrow(id)
    \/ XttsOk(id)
    \/ XttsFail(id)
    \/ ElevenOk(id)
    \/ ElevenFail(id)
    \/ Wav2LipOk(id)
    \/ Wav2LipFail(id)
    \/ Wav2LipError(id)
    \/ Wav2LipLateClose(id)
    \/ \E n \in {1, 2} : MergeOk(id, n)
    \/ \E n \in {1, 2} : MergeCloseFail(id, n)
    \/ \E n \in {1, 2} : MergeError(id, n)
    \/ RenderOk(id)
    \/ RenderFail(id)
    \/ RenderError(id)
    \/ CleanupTimer(id)

Step(id) == Submit(id) \/ Event(id) \/ Delete(id) \/ DeleteUnknown(id)

Next == \E id \in JobIds : Step(id)

\* Runs with a single submission, under every deployment.
NextOne == Step(1)

SpecOne == Init /\ [][NextOne]_vars

\* ... under the assumption that every external call finishes: a pending event of the
\* job (a process closing or failing to launch, a fetch settling, a timer) is delivered
SpecOneFair == SpecOne /\ WF_vars(Event(1))

\* Runs with up to MaxJobs concurrent submissions.  They are followed under three
\* deployments, which between them reach every handler: the two translation
\* providers, the two voice providers, and the lip-sync model file.
Deployments == {{"LIBRETRANSLATE_URL", "DEEPL_API_KEY"},
                {"XTTS_SERVER_URL", "ELEVENLABS_API_KEY"},
                {"wav2lip_gan.pth"}}

InitMany == Init /\ env \in Deployments

Spec == InitMany /\ [][Next]_vars

-----------------------------------------------------------------------------
(* Properties                                                               *)

\* the writes of the latest task for id: the record before and after each updateJob
Writes(id) == { <<log[id][i], log[id][i + 1]>> : i \in 1..(Len(log[id]) - 1) }

Stored(id) == id \in DOMAIN jobs

Terminal(id) == Stored(id) /\ jobs[id].status \in {"done", "error"}

Range(f) == { f[i] : i \in DOMAIN f }

SrtWriteError == "ENOSPC: no space left on device, write"

StatusMoves == {<<"queued", "running">>, <<"running", "done">>, <<"running", "error">>}

\* C1: every write to the store leaves a job's status as it is or moves it along
\* queued -> running -> done or queued -> running -> error; in particular done never
\* becomes error, error never becomes done, and nothing returns to queued.
C1_StatusOrder ==
  \A id \in JobIds : \A w \in Writes(id) :
    \/ w[2].status = w[1].status
    \/ <<w[1].status, w[2].status>> \in StatusMoves

\* C2: no updateJob call sets a job's progress below the value stored for it.
C2_ProgressNonDecreasing ==
  \A id \in JobIds : \A w \in Writes(id) : w[2].progress >= w[1].progress

\* C3: in every state of the store a job's progress is 100 exactly when its status
\* is done.
C3_HundredIffDone ==
  \A id \in DOMAIN jobs : (jobs[id].progress = 100) <=> (jobs[id].status = "done")

\* C4: if every external call finishes, a submitted job that is not deleted reaches
\* status done or status error.
C4_EventuallyTerminal ==
  \A id \in JobIds : Stored(id) ~> (~Stored(id) \/ Terminal(id))

\* C4's case: a job has run through every stage and is done, nothing left pending
C4_RanToTheEnd ==
  \E id \in JobIds : Terminal(id) /\ jobs[id].status = "done" /\ pc[id] = "end"
                       /\ procs[id] = {} /\ ~timer[id]

\* the pipeline of id ended at the audio extraction: nothing but the extraction was
\* ever started, nothing is pending, and the record (if still stored) is in error with
\* no outputs, as the extraction's first update left stage and progress
AudioAborted(id) ==
  /\ pc[id] = "end"
  /\ calls[id] = <<"ffmpeg_audio">>
  /\ procs[id] = {}
  /\ files[id] = NoFiles
  /\ ~timer[id]
  /\ Stored(id) => /\ jobs[id].status = "error"
                   /\ DOMAIN jobs[id].outputs = {}
                   /\ jobs[id].stage = "pill-extract"
                   /\ jobs[id].progress = 8

\* C5: when the audio extraction fails (ffmpeg exits non-zero or cannot be launched)
\* the job is in error with empty outputs and no later stage is started, then or at
\* any later time.
C5_AudioFailureAborts ==
  [][\A id \in JobIds : (AudioFail(id) \/ AudioAborted(id)) => AudioAborted(id)']_vars

\* C5's case: the extraction could not be launched and the job is stored, in error
C5_AudioFailed ==
  \E id \in JobIds : /\ Stored(id) /\ AudioAborted(id)
                       /\ jobs[id].message = "ffmpeg not found - please install ffmpeg"

\* C6: in every state a job whose status is error has empty outputs.
C6_ErrorHasNoOutputs ==
  \A id \in DOMAIN jobs : jobs[id].status = "error" => DOMAIN jobs[id].outputs = {}

\* C7: whenever the store holds status done for a job its outputs hold video, srt and
\* audio, and outputs is written only by the update that moves the job into done.
C7_OutputsWithDone ==
  \A id \in JobIds :
    /\ \A i \in 1..Len(log[id]) :
         log[id][i].status = "done" => DOMAIN log[id][i].outputs = {"video", "srt", "audio"}
    /\ \A w \in Writes(id) :
         DOMAIN w[2].outputs # DOMAIN w[1].outputs
           => (w[1].status # "done" /\ w[2].status = "done")

NoModel == "wav2lip_gan.pth" \notin env

\* C8 as stated: when the lip-sync stage has started without the model file, the
\* pipeline ends with the job done.
C8_NoModelStillDone ==
  \A id \in JobIds :
    (NoModel /\ Stored(id) /\ pc[id] = "end"
       /\ jobs[id].stage \in {"pill-lipsync", "pill-render", "complete"})
      => jobs[id].status = "done"

\* C8, amended: without the model file the inference is never launched and the merge is
\* what the lip-sync stage starts; every lip-sync and final video file is the merge
\* product or encoded from it; a job that is done has such a file as its video; and
\* from the lip-sync stage on the job is in error only because the merge, the render
\* or the subtitle write failed.
C8_NoModelMerges ==
  NoModel =>
    \A id \in JobIds :
      /\ \A p \in procs[id] : p.k # "wav2lip"
      /\ "wav2lip" \notin Range(calls[id])
      /\ pc[id] = "ls_wait" => calls[id] = <<"merge">>
      /\ LipsyncPath \in DOMAIN files[id] => files[id][LipsyncPath] = "merge"
      /\ FinalPath \in DOMAIN files[id] => files[id][FinalPath] = "encode(merge)"
      /\ (Stored(id) /\ jobs[id].status = "done") =>
           \/ jobs[id].outputs.video = FinalPath /\ FinalPath \in DOMAIN files[id]
           \/ jobs[id].outputs.video = LipsyncPath
      /\ (Stored(id) /\ jobs[id].status = "error"
            /\ jobs[id].stage \in {"pill-lipsync", "pill-render", "complete"}) =>
           jobs[id].message \in {"Audio merge failed", "ffmpeg not found",
                                  "Final render failed", SrtWriteError}

\* C8's case: no model file, and the job is done with the encoded merge product
C8_DoneFromMerge ==
  \E id \in JobIds : /\ NoModel /\ Stored(id) /\ jobs[id].status = "done"
                       /\ jobs[id].outputs.video = FinalPath
                       /\ FinalPath \in DOMAIN files[id]
                       /\ files[id][FinalPath] = "encode(merge)"

C10_TranslateProviders ==
  \A id \in JobIds : ret[id] # <<>> =>
    LET r == ret[id][1]
        text == r.value.text
        tried == Range(r.calls)
    IN  /\ r.calls \in {<<>>, <<"libretranslate">>, <<"deepl">>, <<"libretranslate", "deepl">>}
        /\ "libretranslate" \in tried <=> "LIBRETRANSLATE_URL" \in env
        /\ "deepl" \in tried => "DEEPL_API_KEY" \in env
        /\ \/ /\ r.value.translatedText = ProviderText("libretranslate", text)
              /\ r.calls = <<"libretranslate">>
           \/ /\ r.value.translatedText = ProviderText("deepl", text)
              /\ "deepl" \in tried
           \/ /\ r.value.translatedText = Placeholder(LangTo(id), text)
              /\ "DEEPL_API_KEY" \in env => "deepl" \in tried

\* the voice-cloning provider is to be asked for id: voice_mode is clone and the
\* server is configured (read while synthesizeVoice has not returned)
CloneWanted(id) == loc[id].voiceMode = "clone" /\ "XTTS_SERVER_URL" \in env

CloudConfigured == "ELEVENLABS_API_KEY" \in env

\* C11: the synthesis stage asks XTTS first, and only when the voice mode is clone
\* and XTTS is configured; it asks ElevenLabs next when that is configured and XTTS
\* was not asked or failed; when every provider asked has failed, or none was to be
\* asked, it returns the extracted audio track as the dubbed audio and the pipeline
\* goes on to the lip-sync stage with the job still running.
C11_SynthProviders ==
  [][\A id \in JobIds :
       /\ (pc'[id] = "sy_xtts" /\ pc[id] # "sy_xtts")
            => CloneWanted(id) /\ calls'[id] = <<"xtts">>
       /\ (pc'[id] = "sy_eleven" /\ pc[id] # "sy_eleven")
            => /\ CloudConfigured
               /\ IF pc[id] = "sy_xtts"
                  THEN XttsFail(id) /\ calls'[id] = <<"xtts", "elevenlabs">>
                  ELSE ~CloneWanted(id) /\ calls'[id] = <<"elevenlabs">>
       /\ (XttsFail(id) /\ CloudConfigured) => pc'[id] = "sy_eleven"
       /\ (loc[id].dubbedAudio = "none" /\ loc'[id].dubbedAudio # "none")
            => /\ pc'[id] = "ls_wait"
               /\ Stored(id) => jobs'[id].status = "running"
               /\ CASE XttsOk(id) -> loc'[id].dubbedAudio = DubbedWav
                    [] ElevenOk(id) -> loc'[id].dubbedAudio = DubbedMp3
                    [] OTHER -> /\ loc'[id].dubbedAudio = AudioPath
                                /\ \/ XttsFail(id) /\ ~CloudConfigured
                                   \/ ElevenFail(id)
                                   \/ /\ pc[id] \notin {"sy_xtts", "sy_eleven"}
                                      /\ ~CloneWanted(id) /\ ~CloudConfigured
     ]_vars

\* C11's case: both providers are configured, the synthesis has just fallen back to
\* the extracted audio track, and the lip-sync stage is under way
C11_FellBackToOriginal ==
  /\ {"XTTS_SERVER_URL", "ELEVENLABS_API_KEY"} \subseteq env
  /\ pc[1] = "ls_wait" /\ loc[1].dubbedAudio = AudioPath
  /\ Stored(1) /\ jobs[1].status = "running"
  /\ \E i \in DOMAIN log[1] : log[1][i].progress = 75

\* C12: a DELETE for an id the store does not hold is answered 404 Job not found and
\* changes neither the store nor any file; a DELETE for a stored id is answered 200,
\* has run cleanupTemp on the job's files (also when none of them exists) and has
\* removed exactly that record, every other record staying as it was; and a record
\* leaves the store in no other way.
C12_DeleteExactlyThatJob ==
  [][\A id \in JobIds :
       /\ DeleteUnknown(id) => res' = NotFound /\ jobs' = jobs /\ files' = files
       /\ res' = NotFound => jobs' = jobs /\ files' = files
       /\ Delete(id) => res' = Deleted
       /\ (id \in DOMAIN jobs /\ id \notin DOMAIN jobs')
            => /\ res' = Deleted
               /\ files'[id] = cleanupTemp(files[id])
               /\ DOMAIN jobs' = DOMAIN jobs \ {id}
               /\ \A j \in DOMAIN jobs' : jobs'[j] = jobs[j]
     ]_vars

\* C12's case for a stored id: job 1 has just been deleted while none of its temp
\* files existed, and job 2 is stored
C12_DeletedWithoutArtifacts ==
  /\ res = Deleted /\ ~Stored(1) /\ pc[1] = "ea_wait" /\ files[1] = NoFiles
  /\ Stored(2) /\ jobs[2].status = "running"

\* C13: while two jobs are running, a task that runs on behalf of one of them (its
\* submission or any event of its pipeline, with every updateJob call made in it)
\* leaves the record of the other as it was.
C13_UpdatesKeepOtherJobs ==
  [][\A i, j \in JobIds :
       (i # j /\ Stored(j) /\ (Submit(i) \/ Event(i)))
         => j \in DOMAIN jobs' /\ jobs'[j] = jobs[j]
     ]_vars

\* C13's case: both jobs are running at different stages, and the latest task of each
\* has written to the store
C13_BothRunning ==
  /\ Stored(1) /\ Stored(2)
  /\ jobs[1].status = "running" /\ jobs[2].status = "running"
  /\ jobs[1].stage # jobs[2].stage
  /\ Len(log[1]) > 1 /\ Len(log[2]) > 1
  /\ log[2][1].status = "running"

\* C14: when runPipeline returns and leaves the job done or in error, the cleanup
\* timer of the job is pending.
C14_TerminalSchedulesCleanup ==
  [][\A id \in JobIds :
       (pc[id] # "end" /\ pc'[id] = "end" /\ Stored(id) /\ Terminal(id)')
         => timer'[id]
     ]_vars

\* C15: when the cleanup timer of a done job fires, the files its outputs.video and
\* outputs.srt name stay on disk and the store is not changed.
C15_CleanupKeepsOutputs ==
  [][\A id \in JobIds :
       (CleanupTimer(id) /\ Stored(id) /\ jobs[id].status = "done")
         => /\ \A p \in {jobs[id].outputs.video, jobs[id].outputs.srt} :
                 p \in DOMAIN files[id] => p \in DOMAIN files'[id]
            /\ jobs' = jobs
     ]_vars

\* the place of a stage identifier in the order of the stages (extract-audio and
\* extract-frames share pill-extract)
StageRank(stage) ==
  CASE stage = "null" -> 0
    [] stage = "pill-extract" -> 1
    [] stage = "pill-transcribe" -> 2
    [] stage = "pill-translate" -> 3
    [] stage = "pill-synth" -> 4
    [] stage = "pill-lipsync" -> 5
    [] stage = "pill-render" -> 6
    [] stage = "complete" -> 7

\* C16: the stages are entered in order: no write to the store moves a job's stage
\* identifier back to that of an earlier stage.
C16_StageNeverMovesBack ==
  \A id \in JobIds : \A w \in Writes(id) :
    StageRank(w[2].stage) >= StageRank(w[1].stage)

\* runPipeline is suspended in translateText, synthesizeVoice or runLipSync
PastTranscribe == {"tl_libre", "tl_deepl", "sy_xtts", "sy_eleven", "ls_wait"}

\* C17: when the transcription process cannot be launched, exits with a non-zero code
\* or leaves no readable output, transcribeAudio returns the mock transcript (two
\* segments, 0.0-2.5 s and 2.5-5.0 s), the translate stage is entered in the same
\* task, and no write of that task sets the job to error.
C17_TranscribeFailureUsesMock ==
  [][\A id \in JobIds :
       WhisperMock(id)
         => /\ loc'[id].transcript = getMockTranscript
            /\ Len(loc'[id].transcript.segments) = 2
            /\ loc'[id].transcript.segments[1].start = 0
            /\ loc'[id].transcript.segments[1].end = 2500
            /\ loc'[id].transcript.segments[2].start = 2500
            /\ loc'[id].transcript.segments[2].end = 5000
            /\ pc'[id] \in PastTranscribe
            /\ Stored(id)
                 => /\ \A i \in DOMAIN log'[id] : log'[id][i].status = "running"
                    /\ \E i \in DOMAIN log'[id] :
                         /\ log'[id][i].stage = "pill-translate"
                         /\ log'[id][i].progress = 48
     ]_vars

\* C17's case: the mock transcript is what the translate stage of a running job is
\* working on
C17_MockInTranslate ==
  /\ loc[1].transcript = getMockTranscript /\ pc[1] = "tl_libre"
  /\ Stored(1) /\ jobs[1].status = "running" /\ jobs[1].stage = "pill-translate"

\* C18: when extractFrames fails (its process exits non-zero or cannot be launched,
\* or its directory cannot be made, in which case the audio extraction's task goes
\* past it), the job stays running and transcribeAudio is started next: the
\* transcription process is the one thing the stage has started.
C18_FramesFailureGoesOn ==
  [][\A id \in JobIds :
       (FramesDone(id) \/ (AudioCloseOk(id) /\ pc'[id] # "ef_wait"))
         => /\ pc'[id] = "tr_wait"
            /\ calls'[id] = <<"whisper">>
            /\ procs'[id] = {Proc("whisper", 1, "run")}
            /\ Stored(id)
                 => /\ \A i \in DOMAIN log'[id] : log'[id][i].status = "running"
                    /\ jobs'[id].stage = "pill-transcribe"
                    /\ jobs'[id].progress = 28
     ]_vars

\* C18's case: the frames directory could not be made (the update to 18% was never
\* written), and the transcription of the running job is under way
C18_TranscribingWithoutFrames ==
  /\ pc[1] = "tr_wait" /\ Running(1, "whisper", 1)
  /\ Stored(1) /\ jobs[1].status = "running" /\ jobs[1].progress = 28
  /\ log[1][1].progress = 8
  /\ \A i \in DOMAIN log[1] : log[1][i].progress # 18

\* C19: a DELETE of a job leaves its orchestrator where it is, with its processes
\* and its timer; every later task of that job leaves the store as it is (each of
\* its updateJob calls is a no-op, and no other record changes); and an id that was
\* deleted is never stored again.
C19_DeletedStaysDeleted ==
  [][\A id \in JobIds :
       /\ Delete(id) => /\ pc'[id] = pc[id] /\ loc'[id] = loc[id]
                        /\ procs'[id] = procs[id] /\ timer'[id] = timer[id]
       /\ (pc[id] # "none" /\ ~Stored(id))
            => /\ id \notin DOMAIN jobs'
               /\ Event(id) => jobs' = jobs /\ log'[id] = <<>>
     ]_vars

\* C19's case: job 1 was deleted before its audio extraction closed, its orchestrator
\* has gone through the remaining stages to the end, and job 2 is stored
C19_RanOnAfterDelete ==
  /\ ~Stored(1) /\ pc[1] = "end"
  /\ {AudioPath, FinalPath, SrtPath} \subseteq DOMAIN files[1]
  /\ Stored(2) /\ jobs[2].status = "running"

\* C20: within a stage no capability is started twice; in particular the audio merge
\* is started at most once for a job.
C20_StartedAtMostOnce ==
  \A id \in JobIds : \A i, j \in DOMAIN calls[id] :
    calls[id][i] = calls[id][j] => i = j

\* C21: once the store holds status done or error for a job, no write to the store
\* changes that job's stage or progress.
C21_TerminalFreezesStage ==
  \A id \in JobIds : \A w \in Writes(id) :
    w[1].status \in {"done", "error"}
      => w[2].stage = w[1].stage /\ w[2].progress = w[1].progress

\* C22: when the render's encoder exits with a non-zero code, or a merge of the
\* lip-sync stage exits with a non-zero code or cannot be launched, the task that
\* handles the event ends with runPipeline returned and the stored job in error with
\* the failure's message, empty outputs and no subtitle file, and no write of the
\* task holds status done.
C22_RenderOrMergeFailureAborts ==
  [][\A id \in JobIds :
       /\ (Stored(id) /\ (RenderFail(id) \/ \E n \in {1, 2} :
                                             MergeCloseFail(id, n) \/ MergeError(id, n)))
            => /\ pc'[id] = "end"
               /\ jobs'[id].status = "error"
               /\ jobs'[id].outputs = NoOutputs
               /\ SrtPath \notin DOMAIN files'[id]
               /\ \A i \in DOMAIN log'[id] : log'[id][i].status # "done"
       /\ (Stored(id) /\ RenderFail(id)) => jobs'[id].message = "Final render failed"
       /\ (Stored(id) /\ pc[id] = "ls_wait" /\ \E n \in {1, 2} : MergeError(id, n))
            => jobs'[id].message = "ffmpeg not found"
     ]_vars

\* C22 for the failures runPipeline is waiting for (the render's, and a merge's while
\* the await of runLipSync is pending): the task ends with runPipeline returned and
\* the stored job in error with the failure's message, empty outputs, no subtitle
\* file and no write holding done; and a stored error never becomes another status.
C22_AwaitedFailureAborts ==
  [][\A id \in JobIds :
       /\ (Stored(id) /\ (RenderFail(id) \/ (pc[id] = "ls_wait" /\ \E n \in {1, 2} :
                                               MergeCloseFail(id, n) \/ MergeError(id, n))))
            => /\ pc'[id] = "end"
               /\ jobs'[id].status = "error"
               /\ jobs'[id].message
                    \in {"Final render failed", "Audio merge failed", "ffmpeg not found"}
               /\ jobs'[id].outputs = NoOutputs
               /\ SrtPath \notin DOMAIN files'[id]
               /\ \A i \in DOMAIN log'[id] : log'[id][i].status # "done"
       /\ (Stored(id) /\ jobs[id].status = "error" /\ id \in DOMAIN jobs')
            => jobs'[id].status = "error"
     ]_vars

====
